---- MODULE Spec2Model ----
(***************************************************************************)
(* BitDubber: the ActionExecutor (dispatch table, per-action results and   *)
(* history), and the VoiceRecognizer's command parser and listen step.     *)
(*                                                                         *)
(* A Python str is a sequence of one-character strings, so that lower(),   *)
(* strip(), startswith() and replace() are computed character by           *)
(* character.  A status ("success", "partial", "error") and the names of   *)
(* operations and exception types are plain TLA+ strings.                  *)
(***************************************************************************)
EXTENDS Integers, Sequences, FiniteSets, TLC

VARIABLES
  action_history,   \* ActionExecutor.action_history
  microphone,       \* VoiceRecognizer.microphone: "absent", "opened", "calibrated"
  last_command,     \* VoiceRecognizer.last_command
  now,              \* the wall clock read by time.time(); no operation here advances it
  call,             \* the operation called last, with its arguments
  ret,              \* what that call returned or raised
  pc,               \* where listen_continuously is: "idle" when it is not running
  stop_phrase,      \* the stop_phrase argument of listen_continuously
  loop_command,     \* the local variable command of the loop
  callbacks,        \* the texts the callback was invoked with, in order
  recognized,       \* the texts listen_for_command returned inside the loop, in order
  loop_ret,         \* how listen_continuously stands: running, returned or raised
  callback_ret,     \* how the last callback(command) ended: "return" or what it raised
  last_screenshot,  \* ScreenReader.last_screenshot: the path of the last saved capture
  last_text,        \* ScreenReader.last_text: the text of the last extract_text
  ocr_confidence_threshold,  \* settings.ocr_confidence_threshold
  saved,            \* the files screenshot.save has written, by path
  written,          \* the files the services of a BitDubberApp have written
  desktop           \* the actions pyautogui has performed, in order

\* the variables of a running listen_continuously
loopVars == <<pc, stop_phrase, loop_command, callbacks, recognized, loop_ret, callback_ret>>

\* the attributes of a ScreenReader and the setting it reads
screenVars == <<last_screenshot, last_text, ocr_confidence_threshold, saved>>

\* what a BitDubberApp leaves behind
appVars == <<written, desktop>>

vars == <<action_history, microphone, last_command, now, call, ret, loopVars, screenVars,
          appVars>>

(***************************************************************************)
(* Python values and str methods                                           *)
(***************************************************************************)
\* None, where an Optional[str] is expected
None == <<"<None>">>
\* an argument that is not a str (the int 5), where a str is expected
NonStr == <<"<int 5>">>
\* None, where an Optional[Dict] is expected; a dict is a set of <<key, value>>
NoneDict == {<<"<None>">>}
EmptyDict == {}

IsStr(x) == x # None /\ x # NonStr
\* bool(x) for an Optional[str] or an int: None and "" are false
Truthy(x) == x # None /\ x # <<>>
\* str(x), as an f-string formats it
Str(x) == IF x = None THEN <<"N","o","n","e">> ELSE IF x = NonStr THEN <<"5">> ELSE x

UpperLetters == <<"A","B","C","D","E","F","G","H","I","J","K","L","M","N","O","P","Q","R","S","T","U","V","W","X","Y","Z">>
LowerLetters == <<"a","b","c","d","e","f","g","h","i","j","k","l","m","n","o","p","q","r","s","t","u","v","w","x","y","z">>
LowerChar(c) ==
  IF \E i \in 1..Len(UpperLetters) : UpperLetters[i] = c
  THEN LowerLetters[CHOOSE i \in 1..Len(UpperLetters) : UpperLetters[i] = c]
  ELSE c
\* str.lower()
Lower(s) == [i \in 1..Len(s) |-> LowerChar(s[i])]
IsSpace(c) == c \in {" ", "\t", "\n"}
\* str.strip()
Strip(s) ==
  LET keep == {i \in 1..Len(s) : ~IsSpace(s[i])}
  IN IF keep = {} THEN <<>>
     ELSE SubSeq(s, CHOOSE i \in keep : \A j \in keep : i <= j,
                    CHOOSE i \in keep : \A j \in keep : j <= i)
\* str.startswith(prefix)
StartsWith(s, prefix) ==
  Len(prefix) <= Len(s) /\ SubSeq(s, 1, Len(prefix)) = prefix
\* str.replace(old, new) for one-character old and new
Replace(s, old, new) == [i \in 1..Len(s) |-> IF s[i] = old THEN new ELSE s[i]]
\* the message of the AttributeError raised by a str method called on an int
AttributeErrorMessage(method) ==
  <<"'","i","n","t","'"," ","o","b","j","e","c","t"," ","h","a","s"," ","n","o"," ","a","t","t","r","i","b","u","t","e"," ","'">> \o method \o <<"'">>

\* the outcome of a handler or of execute_action: a returned result or a
\* raised exception, together with the commands handed to subprocess.Popen
Return(v, cmds) == [raised |-> FALSE, value |-> v, popen |-> cmds]
\* the outcome of a call that returns None
ReturnNone == [raised |-> FALSE]
\* an exception: BitDubberError carries message and details; for a built-in
\* exception message is str(e) and details is None
Exception(type, message, details) ==
  [type |-> type, message |-> message, details |-> details]
Raise(e, cmds) == [raised |-> TRUE, exc |-> e, popen |-> cmds]
\* a raised exception of a call that spawns nothing
Throw(e) == [raised |-> TRUE, exc |-> e]

(***************************************************************************)
(* ActionExecutor                                                          *)
(***************************************************************************)
\* the longest history the model lets execute_action build
MaxHistory == 2

\* the keys of action_map in _dispatch_action
ActionVerbs ==
  {<<"o","p","e","n">>, <<"c","l","o","s","e">>, <<"c","l","i","c","k">>, <<"t","y","p","e">>, <<"s","c","r","o","l","l">>, <<"s","e","a","r","c","h">>, <<"f","i","n","d">>}

\* app_commands in _action_open
AppNames ==
  {<<"b","r","o","w","s","e","r">>, <<"c","a","l","c","u","l","a","t","o","r">>, <<"t","e","r","m","i","n","a","l">>, <<"f","i","l","e","s">>, <<"s","e","t","t","i","n","g","s">>}
AppCommand(name) ==
  CASE name = <<"b","r","o","w","s","e","r">> -> <<"x","d","g","-","o","p","e","n"," ","h","t","t","p","s",":","/","/">>
    [] name = <<"c","a","l","c","u","l","a","t","o","r">> -> <<"g","n","o","m","e","-","c","a","l","c","u","l","a","t","o","r">>
    [] name = <<"t","e","r","m","i","n","a","l">> -> <<"g","n","o","m","e","-","t","e","r","m","i","n","a","l">>
    [] name = <<"f","i","l","e","s">> -> <<"n","a","u","t","i","l","u","s">>
    [] name = <<"s","e","t","t","i","n","g","s">> -> <<"g","n","o","m","e","-","c","o","n","t","r","o","l","-","c","e","n","t","e","r">>

\* str(e) of the exception subprocess.Popen raises when the spawn fails
PopenErrorText == <<"[","E","r","r","n","o"," ","1","1","]"," ","R","e","s","o","u","r","c","e"," ","t","e","m","p","o","r","a","r","i","l","y"," ","u","n","a","v","a","i","l","a","b","l","e">>

Result(status, message) == [status |-> status, message |-> message]

\* the "not fully implemented" result of the stub handlers
NotImplementedResult(name, target) ==
  Result("partial", name \o <<" ","a","c","t","i","o","n"," ","f","o","r"," ","'">> \o Str(target) \o <<"'"," ","n","o","t"," ","f","u","l","l","y"," ","i","m","p","l","e","m","e","n","t","e","d">>)

\* _action_open with the table looked up by the target as given (no lower())
_action_open_case_sensitive(target, params, popenOk) ==
  IF Truthy(target) /\ target \in AppNames
  THEN IF popenOk
       THEN Return(Result("success", <<"O","p","e","n","e","d"," ">> \o Str(target)), <<AppCommand(target)>>)
       ELSE Return(Result("error", <<"F","a","i","l","e","d"," ","t","o"," ","o","p","e","n"," ">> \o Str(target)
                                   \o <<":"," ">> \o PopenErrorText),
                   <<AppCommand(target)>>)
  ELSE Return(NotImplementedResult(<<"O","p","e","n">>, target), <<>>)

_action_open(target, params, popenOk) ==
  IF Truthy(target)
  THEN IF ~IsStr(target)
       THEN Raise(Exception("AttributeError", AttributeErrorMessage(<<"l","o","w","e","r">>), None), <<>>)
       ELSE IF Lower(target) \in AppNames
            THEN IF popenOk
                 THEN Return(Result("success", <<"O","p","e","n","e","d"," ">> \o Str(target)),
                             <<AppCommand(Lower(target))>>)
                 ELSE Return(Result("error", <<"F","a","i","l","e","d"," ","t","o"," ","o","p","e","n"," ">> \o Str(target)
                                             \o <<":"," ">> \o PopenErrorText),
                             <<AppCommand(Lower(target))>>)
            ELSE Return(NotImplementedResult(<<"O","p","e","n">>, target), <<>>)
  ELSE Return(NotImplementedResult(<<"O","p","e","n">>, target), <<>>)

_action_close(target, params, popenOk) ==
  Return(NotImplementedResult(<<"C","l","o","s","e">>, target), <<>>)

_action_click(target, params, popenOk) ==
  Return(NotImplementedResult(<<"C","l","i","c","k">>, target), <<>>)

_action_type(target, params, popenOk) ==
  Return(NotImplementedResult(<<"T","y","p","e">>, target), <<>>)

\* _action_scroll that rejects a call without a direction
_action_scroll_needs_target(target, params, popenOk) ==
  IF Truthy(target)
  THEN Return(NotImplementedResult(<<"S","c","r","o","l","l">>, target), <<>>)
  ELSE Return(Result("error", <<"N","o"," ","s","c","r","o","l","l"," ","d","i","r","e","c","t","i","o","n"," ","p","r","o","v","i","d","e","d">>), <<>>)

_action_scroll(target, params, popenOk) ==
  Return(NotImplementedResult(<<"S","c","r","o","l","l">>, target), <<>>)

\* _action_search that tests "target is not None" instead of "target"
_action_search_not_none(target, params, popenOk) ==
  IF target # None
  THEN IF ~IsStr(target)
       THEN Return(Result("error", <<"F","a","i","l","e","d"," ","t","o"," ","s","e","a","r","c","h",":"," ">>
                                   \o AttributeErrorMessage(<<"r","e","p","l","a","c","e">>)), <<>>)
       ELSE IF popenOk
            THEN Return(Result("success", <<"S","e","a","r","c","h","i","n","g"," ","f","o","r"," ","'">> \o Str(target) \o <<"'">>),
                        <<<<"x","d","g","-","o","p","e","n"," ","h","t","t","p","s",":","/","/","w","w","w",".","g","o","o","g","l","e",".","c","o","m","/","s","e","a","r","c","h","?","q","=">>
                          \o Replace(target, " ", "+")>>)
            ELSE Return(Result("error", <<"F","a","i","l","e","d"," ","t","o"," ","s","e","a","r","c","h",":"," ">> \o PopenErrorText),
                        <<<<"x","d","g","-","o","p","e","n"," ","h","t","t","p","s",":","/","/","w","w","w",".","g","o","o","g","l","e",".","c","o","m","/","s","e","a","r","c","h","?","q","=">>
                          \o Replace(target, " ", "+")>>)
  ELSE Return(Result("error", <<"N","o"," ","s","e","a","r","c","h"," ","q","u","e","r","y"," ","p","r","o","v","i","d","e","d">>), <<>>)

_action_search(target, params, popenOk) ==
  IF Truthy(target)
  THEN IF ~IsStr(target)
       THEN Return(Result("error", <<"F","a","i","l","e","d"," ","t","o"," ","s","e","a","r","c","h",":"," ">>
                                   \o AttributeErrorMessage(<<"r","e","p","l","a","c","e">>)), <<>>)
       ELSE LET search_url == <<"h","t","t","p","s",":","/","/","w","w","w",".","g","o","o","g","l","e",".","c","o","m","/","s","e","a","r","c","h","?","q","=">>
                              \o Replace(target, " ", "+")
                cmd == <<"x","d","g","-","o","p","e","n"," ">> \o search_url
            IN IF popenOk
               THEN Return(Result("success", <<"S","e","a","r","c","h","i","n","g"," ","f","o","r"," ","'">> \o Str(target) \o <<"'">>),
                           <<cmd>>)
               ELSE Return(Result("error", <<"F","a","i","l","e","d"," ","t","o"," ","s","e","a","r","c","h",":"," ">> \o PopenErrorText),
                           <<cmd>>)
  ELSE Return(Result("error", <<"N","o"," ","s","e","a","r","c","h"," ","q","u","e","r","y"," ","p","r","o","v","i","d","e","d">>), <<>>)

_action_find(target, params, popenOk) ==
  Return(NotImplementedResult(<<"F","i","n","d">>, target), <<>>)

\* _action_unknown that answers like the stub handlers
_action_unknown_partial(target, params, popenOk) ==
  Return(NotImplementedResult(<<"U","n","k","n","o","w","n">>, target), <<>>)

_action_unknown(target, params, popenOk) ==
  Return(Result("error", <<"U","n","k","n","o","w","n"," ","a","c","t","i","o","n">>), <<>>)

_dispatch_action(action, target, params, popenOk) ==
  IF ~IsStr(action)
  THEN Raise(Exception("AttributeError", AttributeErrorMessage(<<"l","o","w","e","r">>), None), <<>>)
  ELSE LET a == Lower(action)
       IN CASE a = <<"o","p","e","n">> -> _action_open(target, params, popenOk)
            [] a = <<"c","l","o","s","e">> -> _action_close(target, params, popenOk)
            [] a = <<"c","l","i","c","k">> -> _action_click(target, params, popenOk)
            [] a = <<"t","y","p","e">> -> _action_type(target, params, popenOk)
            [] a = <<"s","c","r","o","l","l">> -> _action_scroll(target, params, popenOk)
            [] a = <<"s","e","a","r","c","h">> -> _action_search(target, params, popenOk)
            [] a = <<"f","i","n","d">> -> _action_find(target, params, popenOk)
            [] OTHER -> _action_unknown(target, params, popenOk)

\* params as execute_action passes it on: None becomes {}
DefaultParams(params) == IF params = NoneDict THEN EmptyDict ELSE params

\* HistoryEntry that records the action as dispatched (lower-cased)
HistoryEntryFolded(action, target, params, result) ==
  [action |-> Lower(action), target |-> target, params |-> params,
   result |-> result, timestamp |-> now]

\* the entry execute_action appends to action_history
HistoryEntry(action, target, params, result) ==
  [action |-> action, target |-> target, params |-> params,
   result |-> result, timestamp |-> now]

\* HistoryAfter that records a degraded entry when the dispatch raised
HistoryAfterDegraded(history, action, target, params, d) ==
  Append(history,
         [action |-> action, target |-> target, params |-> params,
          result |-> IF d.raised THEN Result("error", d.exc.message) ELSE d.value,
          timestamp |-> now])

\* action_history after a call whose dispatch ended with outcome d: the
\* append is skipped when the dispatch raised
HistoryAfter(history, action, target, params, d) ==
  IF d.raised
  THEN history
  ELSE Append(history, HistoryEntry(action, target, params, d.value))

\* what execute_action hands back when the dispatch ended with outcome d
ExecuteOutcome(action, d) ==
  IF d.raised
  THEN Raise(Exception("ActionExecutionError",
                       <<"F","a","i","l","e","d"," ","t","o"," ","e","x","e","c","u","t","e"," ","a","c","t","i","o","n",":"," ">> \o Str(action),
                       d.exc.message), d.popen)
  ELSE d

execute_action(action, target, params, popenOk) ==
  LET p == DefaultParams(params)
      d == _dispatch_action(action, target, p, popenOk)
  IN /\ Len(action_history) < MaxHistory
     /\ action_history' = HistoryAfter(action_history, action, target, p, d)
     /\ ret' = ExecuteOutcome(action, d)
     /\ call' = [op |-> "execute_action", action |-> action, target |-> target,
                 params |-> params, popenOk |-> popenOk]
     /\ UNCHANGED <<microphone, last_command, now, loopVars, screenVars, appVars>>

\* list[-limit:]
LastSlice(list, limit) ==
  LET start == IF limit > 0
               THEN (IF Len(list) - limit > 0 THEN Len(list) - limit ELSE 0)
               ELSE (IF -limit < Len(list) THEN -limit ELSE Len(list))
  IN SubSeq(list, start + 1, Len(list))

get_action_history(limit) ==
  /\ ret' = [raised |-> FALSE, entries |-> LastSlice(action_history, limit)]
  /\ call' = [op |-> "get_action_history", limit |-> limit]
  /\ UNCHANGED <<action_history, microphone, last_command, now, loopVars, screenVars, appVars>>

\* clear_history that drops the newest entry only
clear_history_newest ==
  /\ action_history' = SubSeq(action_history, 1, Len(action_history) - 1)
  /\ ret' = ReturnNone
  /\ call' = [op |-> "clear_history"]
  /\ UNCHANGED <<microphone, last_command, now, loopVars, screenVars, appVars>>

clear_history ==
  /\ action_history' = <<>>
  /\ ret' = ReturnNone
  /\ call' = [op |-> "clear_history"]
  /\ UNCHANGED <<microphone, last_command, now, loopVars, screenVars, appVars>>

(***************************************************************************)
(* VoiceRecognizer                                                         *)
(***************************************************************************)
\* str(e) of an exception raised by the audio or transcription backend
BackendErrorText == <<"b","a","c","k","e","n","d"," ","f","a","i","l","u","r","e">>

VoiceRecognitionError(message, details) ==
  Exception("VoiceRecognitionError", message, details)

\* self.microphone after initialize_microphone: the attribute is assigned as
\* soon as the device opens, before the ambient-noise calibration
MicrophoneAfterInit(mic, openOk, calibOk) ==
  IF ~openOk THEN mic ELSE IF calibOk THEN "calibrated" ELSE "opened"

\* an initialize_microphone that swallows its failures
InitOutcomeSwallowed(openOk, calibOk) == ReturnNone

InitOutcome(openOk, calibOk) ==
  IF openOk /\ calibOk
  THEN ReturnNone
  ELSE Throw(VoiceRecognitionError(<<"F","a","i","l","e","d"," ","t","o"," ","i","n","i","t","i","a","l","i","z","e"," ","m","i","c","r","o","p","h","o","n","e">>,
                                   BackendErrorText))

\* what initialize_microphone does to the recognizer
InitializeMicrophone(openOk, calibOk) ==
  /\ microphone' = MicrophoneAfterInit(microphone, openOk, calibOk)
  /\ ret' = InitOutcome(openOk, calibOk)
  /\ call' = [op |-> "initialize_microphone", openOk |-> openOk, calibOk |-> calibOk]

initialize_microphone(openOk, calibOk) ==
  /\ InitializeMicrophone(openOk, calibOk)
  /\ UNCHANGED <<action_history, last_command, now, loopVars, screenVars, appVars>>

\* what the backend does with one utterance: it is recognized as a text, or
\* recognizer.listen raises WaitTimeoutError, or recognize_google raises
\* UnknownValueError or RequestError, or something else is raised
Heard(text) == [kind |-> "text", text |-> text]
Failures == {"WaitTimeoutError", "UnknownValueError", "RequestError", "Exception"}
Failed(kind) == [kind |-> kind, text |-> <<>>]

\* the try block of listen_for_command, given what the backend does
ListenOutcome(heard) ==
  CASE heard.kind = "text" -> [raised |-> FALSE, text |-> heard.text]
    [] heard.kind = "WaitTimeoutError" ->
         Throw(VoiceRecognitionError(<<"L","i","s","t","e","n","i","n","g"," ","t","i","m","e","d"," ","o","u","t"," ","-"," ","n","o"," ","s","p","e","e","c","h"," ","d","e","t","e","c","t","e","d">>, None))
    [] heard.kind = "UnknownValueError" ->
         Throw(VoiceRecognitionError(<<"C","o","u","l","d"," ","n","o","t"," ","u","n","d","e","r","s","t","a","n","d"," ","a","u","d","i","o">>, None))
    [] heard.kind = "RequestError" ->
         Throw(VoiceRecognitionError(
                 <<"C","o","u","l","d"," ","n","o","t"," ","r","e","q","u","e","s","t"," ","r","e","s","u","l","t","s"," ","f","r","o","m"," ","s","p","e","e","c","h"," ","r","e","c","o","g","n","i","t","i","o","n"," ","s","e","r","v","i","c","e">>,
                 BackendErrorText))
    [] OTHER ->
         Throw(VoiceRecognitionError(<<"U","n","e","x","p","e","c","t","e","d"," ","e","r","r","o","r"," ","d","u","r","i","n","g"," ","v","o","i","c","e"," ","r","e","c","o","g","n","i","t","i","o","n">>,
                                     BackendErrorText))

\* listen_for_command: an absent microphone is initialized first, and a
\* failure of that initialization leaves before anything is listened to
\* a listen_for_command that clears last_command when it raises
LastCommandCleared(last, out) == IF out.raised THEN <<>> ELSE out.text

\* self.last_command after the try block of listen_for_command: assigned on
\* the path that returns, on no path that raises
LastCommandAfter(last, out) == IF out.raised THEN last ELSE out.text

ListenForCommand(openOk, calibOk, heard) ==
  LET init == microphone = "absent"
      initFailed == init /\ InitOutcome(openOk, calibOk).raised
      out == IF initFailed THEN InitOutcome(openOk, calibOk) ELSE ListenOutcome(heard)
  IN /\ microphone' = IF init THEN MicrophoneAfterInit(microphone, openOk, calibOk)
                      ELSE microphone
     /\ last_command' = LastCommandAfter(last_command, out)
     /\ ret' = out
     /\ call' = [op |-> "listen_for_command", init |-> init, listened |-> ~initFailed,
                 heard |-> heard]

listen_for_command(openOk, calibOk, heard) ==
  /\ ListenForCommand(openOk, calibOk, heard)
  /\ UNCHANGED <<action_history, now, loopVars, screenVars, appVars>>

\* get_available_microphones: the device names by index, or the backend's
\* exception as it is (no try around the enumeration)
get_available_microphones(names, backendOk) ==
  /\ ret' = IF backendOk
            THEN [raised |-> FALSE, microphones |-> {<<i - 1, names[i]>> : i \in 1..Len(names)}]
            ELSE Throw(Exception("OSError", BackendErrorText, None))
  /\ call' = [op |-> "get_available_microphones"]
  /\ UNCHANGED <<action_history, microphone, last_command, now, loopVars, screenVars, appVars>>

(***************************************************************************)
(* VoiceRecognizer.listen_continuously, one step at a time                 *)
(***************************************************************************)
\* the most texts one listen_continuously is let to recognize
MaxRecognized == 2

\* how listen_continuously stands
NotCalled == [state |-> "none", why |-> "", exc |-> ""]
Running == [state |-> "running", why |-> "", exc |-> ""]
Returned(why) == [state |-> "returned", why |-> why, exc |-> ""]
Propagated(type) == [state |-> "raised", why |-> "exception", exc |-> type]

\* a stop-phrase test that compares the texts as they are
IsStopPhraseExact(text, stop) == text = stop

\* command.lower() == stop_phrase.lower()
IsStopPhrase(text, stop) == Lower(text) = Lower(stop)

\* except clauses that let a VoiceRecognitionError end the loop
OnExceptionFatal(type) ==
  IF type = "KeyboardInterrupt" THEN "break" ELSE "propagate"

\* except clauses without the one for KeyboardInterrupt
OnExceptionNoInterrupt(type) ==
  IF type = "VoiceRecognitionError" THEN "continue" ELSE "propagate"

\* the except clauses of the loop, for an exception of the given type raised
\* inside its try block
OnException(type) ==
  CASE type = "VoiceRecognitionError" -> "continue"
    [] type = "KeyboardInterrupt" -> "break"
    [] OTHER -> "propagate"

\* a loop that gives up, returning, after an exception it would pass over
LoopAfterExceptionGivesUp(type) ==
  /\ pc' = "idle"
  /\ loop_ret' = CASE OnException(type) = "continue" -> Returned("failure")
                   [] OnException(type) = "break" -> Returned("interrupt")
                   [] OTHER -> Propagated(type)

\* the loop after an exception of the given type inside its try block:
\* "continue" starts the next iteration, which listens again
LoopAfterException(type) ==
  /\ pc' = IF OnException(type) = "continue" THEN "listen" ELSE "idle"
  /\ loop_ret' = CASE OnException(type) = "continue" -> Running
                   [] OnException(type) = "break" -> Returned("interrupt")
                   [] OTHER -> Propagated(type)

\* the call of listen_continuously up to the loop: an absent microphone is
\* initialized, and a failure of that ends the call
listen_continuously(stop, openOk, calibOk) ==
  LET init == microphone = "absent"
      failed == init /\ InitOutcome(openOk, calibOk).raised
  IN /\ pc = "idle"
     /\ IF init THEN InitializeMicrophone(openOk, calibOk)
                ELSE UNCHANGED <<microphone, call, ret>>
     /\ pc' = IF failed THEN "idle" ELSE "listen"
     /\ loop_ret' = IF failed THEN Propagated("VoiceRecognitionError") ELSE Running
     /\ stop_phrase' = stop
     /\ IF failed THEN UNCHANGED <<callbacks, recognized>>
                  ELSE callbacks' = <<>> /\ recognized' = <<>>
     /\ UNCHANGED <<action_history, last_command, now, loop_command, callback_ret, screenVars,
                 appVars>>

\* command = self.listen_for_command(), then the test for the stop phrase
LoopListen(heard) ==
  /\ pc = "listen"
  /\ (heard.kind = "text" /\ ~IsStopPhrase(heard.text, stop_phrase))
       => Len(recognized) < MaxRecognized
  /\ ListenForCommand(TRUE, TRUE, heard)
  /\ IF ret'.raised
     THEN /\ LoopAfterException(ret'.exc.type)
          /\ UNCHANGED <<loop_command, recognized>>
     ELSE /\ loop_command' = ret'.text
          /\ recognized' = Append(recognized, ret'.text)
          /\ pc' = IF IsStopPhrase(ret'.text, stop_phrase) THEN "idle" ELSE "callback"
          /\ loop_ret' = IF IsStopPhrase(ret'.text, stop_phrase)
                         THEN Returned("stop_phrase") ELSE Running
  /\ UNCHANGED <<action_history, now, stop_phrase, callbacks, callback_ret, screenVars, appVars>>

\* a KeyboardInterrupt delivered while listen_for_command blocks: it is no
\* Exception, passes the except clauses of listen_for_command and reaches the
\* loop
LoopListenInterrupted ==
  /\ pc = "listen"
  /\ LoopAfterException("KeyboardInterrupt")
  /\ UNCHANGED <<action_history, microphone, last_command, now, call, ret,
                 stop_phrase, loop_command, callbacks, recognized, callback_ret, screenVars,
                 appVars>>

\* a loop that skips the callback for a text equal to the one before
CallbacksAfterDistinct(invoked, text) ==
  IF invoked # <<>> /\ invoked[Len(invoked)] = text THEN invoked ELSE Append(invoked, text)

\* the texts the callback was invoked with, after callback(command)
CallbacksAfter(invoked, text) == Append(invoked, text)

\* callback(command) is entered
InvokeCallback ==
  /\ pc = "callback"
  /\ callbacks' = CallbacksAfter(callbacks, loop_command)
  /\ pc' = "in_callback"
  /\ UNCHANGED <<action_history, microphone, last_command, now, call, ret,
                 stop_phrase, loop_command, recognized, loop_ret, callback_ret, screenVars,
                 appVars>>

\* what a callback may do: return, or raise (a KeyboardInterrupt delivered
\* while it runs included)
CallbackOutcomes == {"return", "VoiceRecognitionError", "Exception", "KeyboardInterrupt"}

\* callback(command) is left
CallbackEnds(outcome) ==
  /\ pc = "in_callback"
  /\ IF outcome = "return"
     THEN pc' = "listen" /\ loop_ret' = Running
     ELSE LoopAfterException(outcome)
  /\ callback_ret' = outcome
  /\ UNCHANGED <<action_history, microphone, last_command, now, call, ret,
                 stop_phrase, loop_command, callbacks, recognized, screenVars, appVars>>

\* a verb list in which one verb ("sea") is the start of another ("search")
action_verbs_nested ==
  <<<<"o","p","e","n">>, <<"c","l","o","s","e">>, <<"c","l","i","c","k">>, <<"t","y","p","e">>, <<"s","c","r","o","l","l">>, <<"s","e","a","r","c","h">>, <<"s","e","a">>>>

\* action_verbs in parse_command, in the order the loop scans them
action_verbs ==
  <<<<"o","p","e","n">>, <<"c","l","o","s","e">>, <<"c","l","i","c","k">>, <<"t","y","p","e">>, <<"s","c","r","o","l","l">>, <<"s","e","a","r","c","h">>, <<"f","i","n","d">>>>

\* command or self.last_command
CommandOrLast(command, last) == IF Truthy(command) THEN command ELSE last

\* the loop "for verb in verbs: if command.startswith(verb): ... break" and
\* what follows it, for a list of verbs
ParseWith(verbs, text) ==
  LET command == Strip(Lower(text))
      hits == {i \in 1..Len(verbs) : StartsWith(command, verbs[i])}
      first == CHOOSE i \in hits : \A j \in hits : i <= j
  IN IF hits # {}
     THEN [raw |-> command, action |-> verbs[first],
           target |-> Strip(SubSeq(command, Len(verbs[first]) + 1, Len(command))),
           params |-> EmptyDict]
     ELSE [raw |-> command, action |-> <<"u","n","k","n","o","w","n">>, target |-> command,
           params |-> EmptyDict]

\* the dictionary parse_command returns for the command text it settled on
Parse(text) == ParseWith(action_verbs, text)

ParsedCommand(command, last) == Parse(CommandOrLast(command, last))

parse_command(command) ==
  /\ ret' = [raised |-> FALSE, parsed |-> ParsedCommand(command, last_command)]
  /\ call' = [op |-> "parse_command", command |-> command]
  /\ UNCHANGED <<action_history, microphone, last_command, now, loopVars, screenVars, appVars>>

(***************************************************************************)
(* The interactive run mode (cli.run)                                      *)
(***************************************************************************)
\* a handle_command that hands the whole command text on as the target
PipelineArgsRaw(parsed) ==
  [action |-> parsed.action, target |-> parsed.raw, params |-> parsed.params]

\* parsed["action"], parsed["target"], parsed.get("params", {})
PipelineArgs(parsed) ==
  [action |-> parsed.action, target |-> parsed.target, params |-> parsed.params]

\* handle_command(command), the callback cli.run gives listen_continuously:
\* parse_command, then execute_action inside "try ... except BitDubberError"
handle_command(command, popenOk) ==
  LET parsed == ParsedCommand(command, last_command)
      args == PipelineArgs(parsed)
      p == DefaultParams(args.params)
      d == _dispatch_action(args.action, args.target, p, popenOk)
  IN /\ Len(action_history) < MaxHistory
     /\ action_history' = HistoryAfter(action_history, args.action, args.target, p, d)
     /\ ret' = ReturnNone
     /\ call' = [op |-> "handle_command", command |-> command, popenOk |-> popenOk,
                 parsed |-> parsed, executed |-> ExecuteOutcome(args.action, d)]
     /\ UNCHANGED <<microphone, last_command, now, loopVars, screenVars, appVars>>

(***************************************************************************)
(* ScreenReader                                                            *)
(***************************************************************************)
\* the default of settings.ocr_confidence_threshold
DefaultThreshold == 60

ScreenCaptureError(message, details) ==
  Exception("ScreenCaptureError", message, details)

\* str(e): BitDubberError.__str__ appends the details when there are any; a
\* backend exception prints its message
ExcStr(e) ==
  IF Truthy(e.details) THEN e.message \o <<" ","-"," ","D","e","t","a","i","l","s",":"," ">> \o e.details ELSE e.message

\* the exceptions of the capture and OCR backends
GrabError == Exception("OSError", <<"g","r","a","b"," ","f","a","i","l","e","d">>, None)
SaveError == Exception("PermissionError", <<"s","a","v","e"," ","f","a","i","l","e","d">>, None)
EnhanceError == Exception("cv2.error", <<"b","a","d"," ","i","m","a","g","e">>, None)
OcrError == Exception("TesseractNotFoundError", <<"n","o"," ","t","e","s","s","e","r","a","c","t">>, None)

\* a PIL image, by what the OCR backend reads from it: the plain text of
\* image_to_string and the tokens <<text, conf>> of image_to_data
Image(text, tokens) == [text |-> text, tokens |-> tokens]
\* image=None
NoImage == Image(None, <<>>)

\* a try block whose exceptions pass to the caller as they are
Unwrapped(out, error_msg) == out

\* try: ... except Exception as e: raise ScreenCaptureError(error_msg, details=str(e))
Wrapped(out, error_msg) ==
  IF out.raised THEN Throw(ScreenCaptureError(error_msg, ExcStr(out.exc))) ELSE out

\* what the backends do during one call, as the call record keeps it (TRUE
\* for a step that succeeds or that the call does not take)
Backend(grabOk, saveOk, enhanceOk, ocrOk) ==
  [grabOk |-> grabOk, saveOk |-> saveOk, enhanceOk |-> enhanceOk, ocrOk |-> ocrOk]

\* settings.screenshot_dir / f"screenshot_{timestamp}.png", the timestamp
\* being the wall clock to the second
ScreenshotPath(time) == <<"screenshots", "screenshot_", time, ".png">>

\* capture_screenshot(save), given the screen and what the backends do
CaptureOutcome(save, screen, grabOk, saveOk) ==
  Wrapped(IF ~grabOk THEN Throw(GrabError)
          ELSE IF save /\ ~saveOk THEN Throw(SaveError)
          ELSE [raised |-> FALSE, image |-> screen],
          <<"F","a","i","l","e","d"," ","t","o"," ","c","a","p","t","u","r","e"," ","s","c","r","e","e","n","s","h","o","t">>)

\* a capture_screenshot that records the path before the file is written
LastScreenshotEager(last, save, grabOk, saveOk) ==
  IF save /\ grabOk THEN ScreenshotPath(now) ELSE last

\* self.last_screenshot after capture_screenshot(save)
LastScreenshotAfter(last, save, grabOk, saveOk) ==
  IF save /\ grabOk /\ saveOk THEN ScreenshotPath(now) ELSE last

\* the files on disk after capture_screenshot(save): screenshot.save(filepath)
\* creates the file or replaces the one of that path
SavedAfter(files, save, grabOk, saveOk) ==
  IF save /\ grabOk /\ saveOk THEN files \cup {ScreenshotPath(now)} ELSE files

capture_screenshot(save, screen, grabOk, saveOk) ==
  /\ ret' = CaptureOutcome(save, screen, grabOk, saveOk)
  /\ last_screenshot' = LastScreenshotAfter(last_screenshot, save, grabOk, saveOk)
  /\ saved' = SavedAfter(saved, save, grabOk, saveOk)
  /\ call' = [op |-> "capture_screenshot", save |-> save, screen |-> screen, grabs |-> 1,
              backend |-> Backend(grabOk, ~save \/ saveOk, TRUE, TRUE)]
  /\ UNCHANGED <<action_history, microphone, last_command, now, loopVars, appVars,
                 last_text, ocr_confidence_threshold>>

\* extract_text(image, enhance): the capture when no image is given, the
\* enhancement, the OCR and the strip, all inside one try block
ExtractOutcome(image, enhance, screen, grabOk, enhanceOk, ocrOk) ==
  LET captured == IF image = NoImage THEN CaptureOutcome(FALSE, screen, grabOk, TRUE)
                  ELSE [raised |-> FALSE, image |-> image]
  IN Wrapped(IF captured.raised THEN captured
             ELSE IF enhance /\ ~enhanceOk THEN Throw(EnhanceError)
             ELSE IF ~ocrOk THEN Throw(OcrError)
             ELSE [raised |-> FALSE, text |-> Strip(captured.image.text)],
             <<"F","a","i","l","e","d"," ","t","o"," ","e","x","t","r","a","c","t"," ","t","e","x","t"," ","f","r","o","m"," ","i","m","a","g","e">>)

\* an extract_text that appends to the text it holds
LastTextMerged(last, out) == IF out.raised THEN last ELSE last \o out.text

\* self.last_text after extract_text
LastTextAfter(last, out) == IF out.raised THEN last ELSE out.text

extract_text(image, enhance, screen, grabOk, enhanceOk, ocrOk) ==
  LET out == ExtractOutcome(image, enhance, screen, grabOk, enhanceOk, ocrOk)
  IN /\ ret' = out
     /\ last_text' = LastTextAfter(last_text, out)
     /\ call' = [op |-> "extract_text", image |-> image, enhance |-> enhance,
                 screen |-> screen, grabs |-> IF image = NoImage THEN 1 ELSE 0,
                 backend |-> Backend(image # NoImage \/ grabOk, TRUE,
                                     ~enhance \/ enhanceOk, ocrOk)]
     /\ UNCHANGED <<action_history, microphone, last_command, now, loopVars, appVars,
                    last_screenshot, ocr_confidence_threshold, saved>>

\* pytesseract.image_to_data(image, output_type=Output.DICT): one column per
\* field, the box of the i-th token told apart by i
OCRData(tokens) ==
  LET n == Len(tokens)
  IN [text |-> [i \in 1..n |-> tokens[i][1]],
      conf |-> [i \in 1..n |-> tokens[i][2]],
      left |-> [i \in 1..n |-> 10 * i],
      top |-> [i \in 1..n |-> 20 * i],
      width |-> [i \in 1..n |-> 30 + i],
      height |-> [i \in 1..n |-> 12]]

\* a filter that wants the confidence above the threshold
KeepsAbove(text, confidence, threshold) ==
  Truthy(Strip(text)) /\ confidence > threshold

\* if text.strip(): ... if confidence >= self.settings.ocr_confidence_threshold
\* (confidence = float(data["conf"][i]) has the value of the column entry)
Keeps(text, confidence, threshold) ==
  Truthy(Strip(text)) /\ confidence >= threshold

\* the dict appended for the i-th token
TextElement(data, i) ==
  [text |-> data.text[i], confidence |-> data.conf[i], left |-> data.left[i],
   top |-> data.top[i], width |-> data.width[i], height |-> data.height[i]]

\* the loop over enumerate(data["text"]), from the i-th token on
RECURSIVE ResultsFrom(_, _, _)
ResultsFrom(data, i, threshold) ==
  IF i > Len(data.text) THEN <<>>
  ELSE (IF Keeps(data.text[i], data.conf[i], threshold)
        THEN <<TextElement(data, i)>> ELSE <<>>)
       \o ResultsFrom(data, i + 1, threshold)

\* extract_text_with_confidence(image), given the screen and what the
\* backends do
ConfidenceOutcome(image, screen, grabOk, dataOk) ==
  LET captured == IF image = NoImage THEN CaptureOutcome(FALSE, screen, grabOk, TRUE)
                  ELSE [raised |-> FALSE, image |-> image]
  IN Wrapped(IF captured.raised THEN captured
             ELSE IF ~dataOk THEN Throw(OcrError)
             ELSE [raised |-> FALSE,
                   results |-> ResultsFrom(OCRData(captured.image.tokens), 1,
                                           ocr_confidence_threshold)],
             <<"F","a","i","l","e","d"," ","t","o"," ","e","x","t","r","a","c","t"," ","t","e","x","t"," ","w","i","t","h"," ","c","o","n","f","i","d","e","n","c","e">>)

extract_text_with_confidence(image, screen, grabOk, dataOk) ==
  /\ ret' = ConfidenceOutcome(image, screen, grabOk, dataOk)
  /\ call' = [op |-> "extract_text_with_confidence", image |-> image, screen |-> screen,
              grabs |-> IF image = NoImage THEN 1 ELSE 0,
              backend |-> Backend(image # NoImage \/ grabOk, TRUE, TRUE, dataOk)]
  /\ UNCHANGED <<action_history, microphone, last_command, now, loopVars, screenVars, appVars>>

\* capture_and_read(save_screenshot): capture_screenshot, then extract_text
\* of the capture with the default enhance=True
CaptureAndReadOutcome(save, screen, grabOk, saveOk, enhanceOk, ocrOk) ==
  LET captured == CaptureOutcome(save, screen, grabOk, saveOk)
  IN IF captured.raised THEN captured
     ELSE ExtractOutcome(captured.image, TRUE, screen, grabOk, enhanceOk, ocrOk)

capture_and_read(save, screen, grabOk, saveOk, enhanceOk, ocrOk) ==
  LET out == CaptureAndReadOutcome(save, screen, grabOk, saveOk, enhanceOk, ocrOk)
  IN /\ ret' = out
     /\ last_screenshot' = LastScreenshotAfter(last_screenshot, save, grabOk, saveOk)
     /\ saved' = SavedAfter(saved, save, grabOk, saveOk)
     /\ last_text' = LastTextAfter(last_text, out)
     /\ call' = [op |-> "capture_and_read", save |-> save, screen |-> screen, grabs |-> 1,
                 backend |-> Backend(grabOk, ~save \/ saveOk, enhanceOk, ocrOk)]
     /\ UNCHANGED <<action_history, microphone, last_command, now, loopVars, appVars,
                    ocr_confidence_threshold>>

\* the most seconds the wall clock is let to advance
MaxTime == 2

\* a second of wall-clock time passes between two calls
Tick ==
  /\ now < MaxTime
  /\ now' = now + 1
  /\ UNCHANGED <<action_history, microphone, last_command, call, ret, loopVars, screenVars,
                 appVars>>

\* needle in haystack, for two str
IsSubstring(needle, haystack) ==
  \E i \in 0..(Len(haystack) - Len(needle)) :
    SubSeq(haystack, i + 1, i + Len(needle)) = needle

\* a search that folds the case whatever case_sensitive says
FoundFolded(search_text, screen_text, case_sensitive) ==
  IsSubstring(Lower(search_text), Lower(screen_text))

\* the test of find_text_on_screen on the text read
Found(search_text, screen_text, case_sensitive) ==
  IF ~case_sensitive
  THEN IsSubstring(Lower(search_text), Lower(screen_text))
  ELSE IsSubstring(search_text, screen_text)

find_text_on_screen(search_text, case_sensitive, screen, grabOk, enhanceOk, ocrOk) ==
  LET read == CaptureAndReadOutcome(FALSE, screen, grabOk, TRUE, enhanceOk, ocrOk)
  IN /\ ret' = IF read.raised THEN read
               ELSE [raised |-> FALSE, found |-> Found(search_text, read.text, case_sensitive)]
     /\ last_text' = LastTextAfter(last_text, read)
     /\ call' = [op |-> "find_text_on_screen", search_text |-> search_text,
                 case_sensitive |-> case_sensitive, screen |-> screen, grabs |-> 1,
                 backend |-> Backend(grabOk, TRUE, enhanceOk, ocrOk)]
     /\ UNCHANGED <<action_history, microphone, last_command, now, loopVars, appVars,
                    last_screenshot, ocr_confidence_threshold, saved>>

(***************************************************************************)
(* Settings                                                                *)
(***************************************************************************)
\* the Field(ge=..., le=...) constraints of Settings; the float fields are
\* counted in tenths (0.1 is 1, 60.0 is 600), voice_energy_threshold in units
Ranges ==
  [screenshot_interval |-> [ge |-> 1, le |-> 600],
   ocr_confidence_threshold |-> [ge |-> 0, le |-> 1000],
   voice_timeout |-> [ge |-> 10, le |-> 300],
   voice_phrase_time_limit |-> [ge |-> 10, le |-> 600],
   voice_energy_threshold |-> [ge |-> 100, le |-> 4000],
   action_timeout |-> [ge |-> 10, le |-> 3000]]

\* the Field(default=...) values of the bounded fields, in the same units
Defaults ==
  [screenshot_interval |-> 10, ocr_confidence_threshold |-> 600, voice_timeout |-> 50,
   voice_phrase_time_limit |-> 100, voice_energy_threshold |-> 300, action_timeout |-> 300]

\* a validation with exclusive bounds (gt, lt)
ValidExclusive(field, value) ==
  Ranges[field].ge < value /\ value < Ranges[field].le

\* pydantic's check of one bounded field: ge and le are inclusive
Valid(field, value) ==
  Ranges[field].ge <= value /\ value <= Ranges[field].le

\* Settings(**kwargs): super().__init__ validates every field and raises
\* pydantic's ValidationError (a ValueError) for the first construction with
\* a field out of range; then the screenshot directory is created
SettingsOutcome(kwargs, mkdirOk) ==
  IF \E field \in DOMAIN Ranges : ~Valid(field, kwargs[field])
  THEN Throw(Exception("ValidationError", <<"v","a","l","i","d","a","t","i","o","n"," ","e","r","r","o","r"," ","f","o","r"," ","S","e","t","t","i","n","g","s">>, None))
  ELSE IF ~mkdirOk
  THEN Throw(Exception("OSError", <<"m","k","d","i","r"," ","f","a","i","l","e","d">>, None))
  ELSE [raised |-> FALSE, settings |-> kwargs]

Settings(kwargs, mkdirOk) ==
  /\ ret' = SettingsOutcome(kwargs, mkdirOk)
  /\ call' = [op |-> "Settings", kwargs |-> kwargs, mkdirOk |-> mkdirOk]
  /\ UNCHANGED <<action_history, microphone, last_command, now, loopVars, screenVars, appVars>>

(***************************************************************************)
(* BitDubberApp (bitdubber/app.py)                                         *)
(***************************************************************************)
\* a request is taken while fewer desktop actions than this were performed
MaxDesktop == 3

\* the service calls of handle_user_request, in the order of its try block
Stages ==
  <<"convert_speech_to_text", "take_screenshot", "identify_ui_elements",
    "determine_click_sequence", "convert_text_to_speech", "execute_click_sequence">>

\* the exception class into which each service call wraps whatever it fails with
StageError ==
  <<"WatsonServicesError", "UIAutomationError", "LLaMAServiceError",
    "LLaMAServiceError", "WatsonServicesError", "UIAutomationError">>

\* the file a service call has written when it returns
StageFile ==
  <<"", "screenshot.png", "ui_elements.csv", "", "output.wav", "">>

\* the actions determine_click_sequence returns, by their "action" key
ClickSequence == <<"click", "type", "press">>

\* str(e) of the FileNotFoundError of open(audio_file_path)
FileNotFound == <<"[","E","r","r","n","o"," ","2","]"," ","N","o"," ","s","u","c","h"," ","f","i","l","e"," ","o","r"," ","d","i","r","e","c","t","o","r","y">>

\* the message of the error a service call raises, from str(e) of its cause
StageMessage(stage, audio_input, cause) ==
  CASE stage = 1 -> IF cause = FileNotFound
                    THEN <<"A","u","d","i","o"," ","f","i","l","e"," ","n","o","t"," ","f","o","u","n","d",":"," ">> \o audio_input
                    ELSE <<"S","p","e","e","c","h","-","t","o","-","t","e","x","t"," ","c","o","n","v","e","r","s","i","o","n"," ","f","a","i","l","e","d",":"," ">> \o cause
    [] stage = 2 -> <<"F","a","i","l","e","d"," ","t","o"," ","t","a","k","e"," ","s","c","r","e","e","n","s","h","o","t",":"," ">> \o cause
    [] stage = 3 -> <<"F","a","i","l","e","d"," ","t","o"," ","i","d","e","n","t","i","f","y"," ","U","I"," ","e","l","e","m","e","n","t","s",":"," ">> \o cause
    [] stage = 4 -> <<"F","a","i","l","e","d"," ","t","o"," ","d","e","t","e","r","m","i","n","e"," ","c","l","i","c","k"," ","s","e","q","u","e","n","c","e",":"," ">> \o cause
    [] stage = 5 -> <<"T","e","x","t","-","t","o","-","s","p","e","e","c","h"," ","c","o","n","v","e","r","s","i","o","n"," ","f","a","i","l","e","d",":"," ">> \o cause
    [] stage = 6 -> <<"F","a","i","l","e","d"," ","t","o"," ","e","x","e","c","u","t","e"," ","a","c","t","i","o","n"," ","s","e","q","u","e","n","c","e",":"," ">> \o cause

\* what goes wrong in one request: stage 0 is a request in which nothing does;
\* done counts the actions execute_click_sequence performed before it failed
NoFailure == [stage |-> 0, cause |-> <<>>, done |-> 0]
Failure(stage, cause, done) == [stage |-> stage, cause |-> cause, done |-> done]

\* a try block that goes on with the next service call after a failed one
StagesRunAll(failure) == Stages

\* the service calls made: the first exception leaves the try block
StagesRun(failure) ==
  IF failure.stage = 0 THEN Stages ELSE SubSeq(Stages, 1, failure.stage)

\* the service calls that returned
Succeeded(failure) ==
  {i \in 1..Len(StagesRun(failure)) : i # failure.stage}

\* the except clauses of handle_user_request, by the class they catch
ExceptClause(type) ==
  CASE type = "WatsonServicesError" -> <<"W","a","t","s","o","n"," ","s","e","r","v","i","c","e"," ","e","r","r","o","r",":"," ">>
    [] type = "LLaMAServiceError" -> <<"L","L","a","M","A"," ","s","e","r","v","i","c","e"," ","e","r","r","o","r",":"," ">>
    [] type = "UIAutomationError" -> <<"U","I"," ","a","u","t","o","m","a","t","i","o","n"," ","e","r","r","o","r",":"," ">>
    [] OTHER -> <<"U","n","e","x","p","e","c","t","e","d"," ","e","r","r","o","r",":"," ">>

\* what handle_user_request returns
RequestOutcome(audio_input, failure) ==
  IF failure.stage = 0
  THEN [raised |-> FALSE, text |-> <<"S","u","c","c","e","s","s",":"," ">> \o <<"E","x","e","c","u","t","i","o","n"," ","c","o","m","p","l","e","t","e","d"," ","s","u","c","c","e","s","s","f","u","l","l","y",".">>]
  ELSE [raised |-> FALSE,
        text |-> ExceptClause(StageError[failure.stage])
                   \o StageMessage(failure.stage, audio_input, failure.cause)]

\* the desktop actions execute_click_sequence performed
Performed(failure) ==
  IF 6 \in Succeeded(failure) THEN ClickSequence
  ELSE IF failure.stage = 6 THEN SubSeq(ClickSequence, 1, failure.done)
  ELSE <<>>

\* BitDubberApp.handle_user_request(audio_input)
handle_user_request(audio_input, failure) ==
  /\ Len(desktop) < MaxDesktop
  /\ written' = written \cup ({StageFile[i] : i \in Succeeded(failure)} \ {""})
  /\ desktop' = desktop \o Performed(failure)
  /\ ret' = RequestOutcome(audio_input, failure)
  /\ call' = [op |-> "handle_user_request", audio_input |-> audio_input,
              failure |-> failure, stages |-> StagesRun(failure)]
  /\ UNCHANGED <<action_history, microphone, last_command, now, loopVars, screenVars>>

(***************************************************************************)
(* Specifications                                                          *)
(***************************************************************************)
Init ==
  /\ action_history = <<>>
  /\ microphone = "absent"
  /\ last_command = <<>>
  /\ now = 0
  /\ call = [op |-> "__init__"]
  /\ ret = ReturnNone
  /\ pc = "idle"
  /\ stop_phrase = <<>>
  /\ loop_command = <<>>
  /\ callbacks = <<>>
  /\ recognized = <<>>
  /\ loop_ret = NotCalled
  /\ callback_ret = "none"
  /\ last_screenshot = None
  /\ last_text = <<>>
  /\ ocr_confidence_threshold = DefaultThreshold
  /\ saved = {}
  /\ written = {}
  /\ desktop = <<>>

\* the arguments of the calls made on a fresh executor
Actions ==
  ActionVerbs \cup
  {<<"O","P","E","N">>, <<"C","l","o","s","e">>, <<"C","L","I","C","K">>, <<"t","Y","p","E">>, <<"S","c","r","o","l","l">>, <<"S","E","A","R","C","H">>, <<"F","i","n","d">>,
   <<>>, <<"l","a","u","n","c","h">>, <<"o","p","e","n","s">>, <<" ","o","p","e","n">>, <<"u","n","k","n","o","w","n">>, NonStr}
Targets ==
  {None, <<>>, <<"b","r","o","w","s","e","r">>, <<"C","a","l","c","u","l","a","t","o","r">>, <<"F","I","L","E","S">>, <<"n","o","t","e","p","a","d">>, <<" ","b","r","o","w","s","e","r">>,
   <<"p","y","t","h","o","n"," ","d","o","c","u","m","e","n","t","a","t","i","o","n">>, NonStr}
Params == {NoneDict, EmptyDict, {<<"key", "value">>}}

\* the histories the executor may hold when the call is made: none yet, or
\* the entry of an earlier successful search
PriorHistories ==
  {<<>>,
   <<[action |-> <<"s","e","a","r","c","h">>, target |-> <<"b","r","o","w","s","e","r">>, params |-> EmptyDict,
      result |-> Result("success", <<"S","e","a","r","c","h","i","n","g"," ","f","o","r"," ","'","b","r","o","w","s","e","r","'">>), timestamp |-> 0]>>}

InitDispatch ==
  /\ action_history \in PriorHistories
  /\ microphone = "absent"
  /\ last_command = <<>>
  /\ now = 0
  /\ call = [op |-> "__init__"]
  /\ ret = ReturnNone
  /\ pc = "idle"
  /\ stop_phrase = <<>>
  /\ loop_command = <<>>
  /\ callbacks = <<>>
  /\ recognized = <<>>
  /\ loop_ret = NotCalled
  /\ callback_ret = "none"
  /\ last_screenshot = None
  /\ last_text = <<>>
  /\ ocr_confidence_threshold = DefaultThreshold
  /\ saved = {}
  /\ written = {}
  /\ desktop = <<>>

\* one call of execute_action, with any of the arguments
NextDispatch ==
  \E action \in Actions, target \in Targets, params \in Params, popenOk \in BOOLEAN :
    /\ call.op = "__init__"
    /\ execute_action(action, target, params, popenOk)

SpecDispatch == InitDispatch /\ [][NextDispatch]_vars

\* the arguments of the calls that build up a history
HistoryActions == {<<"s","e","a","r","c","h">>, <<"O","P","E","N">>, <<"l","a","u","n","c","h">>, NonStr}
HistoryTargets == {None, <<"b","r","o","w","s","e","r">>}
HistoryParams == {NoneDict, {<<"key", "value">>}}
Limits == 0..(MaxHistory + 1)

\* an ActionExecutor used over and over
NextExecutor ==
  \/ \E action \in HistoryActions, target \in HistoryTargets, params \in HistoryParams,
        popenOk \in BOOLEAN :
       execute_action(action, target, params, popenOk)
  \/ \E limit \in Limits : get_action_history(limit)
  \/ clear_history

SpecExecutor == Init /\ [][NextExecutor]_vars

\* what the backend may recognize, and the command strings parse_command is given
Utterances == {<<"o","p","e","n"," ","b","r","o","w","s","e","r">>, <<"S","t","o","p"," ","L","i","s","t","e","n","i","n","g">>, <<"h","e","l","l","o">>}
Commands ==
  {None, <<>>, <<" ">>, <<"o","p","e","n"," ","b","r","o","w","s","e","r">>, <<"O","P","E","N"," ","C","a","l","c","u","l","a","t","o","r">>, <<" "," ","O","p","e","n"," "," "," ","S","e","t","t","i","n","g","s"," ","m","e","n","u"," ">>,
   <<"o","p","e","n","s","e","s","a","m","e">>, <<"o","p","e","n"," ","s","e","a","r","c","h"," ","b","a","r">>, <<"c","l","o","s","e">>, <<"c","l","i","c","k"," ","b","u","t","t","o","n">>, <<"t","y","p","e"," ","h","e","l","l","o"," ","w","o","r","l","d">>,
   <<"S","c","r","o","l","l","\t","D","o","w","n">>, <<"s","e","a","r","c","h">>, <<"s","e","a","r","c","h"," ","p","y","t","h","o","n"," ","d","o","c","u","m","e","n","t","a","t","i","o","n">>, <<"f","i","n","d"," ","t","e","x","t">>,
   <<"h","e","l","l","o"," ","w","o","r","l","d">>, <<"r","e","o","p","e","n">>, <<"o","p","e">>}

\* a VoiceRecognizer that listens and parses
NextVoice ==
  \/ \E openOk \in BOOLEAN, calibOk \in BOOLEAN :
       initialize_microphone(openOk, calibOk)
  \/ \E openOk \in BOOLEAN, calibOk \in BOOLEAN,
        heard \in {Heard(u) : u \in Utterances} \cup {Failed(k) : k \in Failures} :
       listen_for_command(openOk, calibOk, heard)
  \/ \E command \in Commands : parse_command(command)

SpecVoice == Init /\ [][NextVoice]_vars

\* the stop phrases listen_continuously is called with (the first is the default)
StopPhrases == {<<"s","t","o","p"," ","l","i","s","t","e","n","i","n","g">>, <<"H","e","l","l","o">>}
HeardSet == {Heard(u) : u \in Utterances} \cup {Failed(k) : k \in Failures}

\* the calls of listen_continuously and the steps of its loop
NextContinuous ==
  \/ \E stop \in StopPhrases, openOk \in BOOLEAN, calibOk \in BOOLEAN :
       listen_continuously(stop, openOk, calibOk)
  \/ \E heard \in HeardSet : LoopListen(heard)
  \/ LoopListenInterrupted
  \/ InvokeCallback
  \/ \E outcome \in CallbackOutcomes : CallbackEnds(outcome)

\* a VoiceRecognizer whose caller also listens continuously; the other
\* operations are called while listen_continuously is not running
NextLoop ==
  \/ NextContinuous
  \/ /\ pc = "idle"
     /\ \/ \E openOk \in BOOLEAN, calibOk \in BOOLEAN :
             initialize_microphone(openOk, calibOk)
        \/ \E openOk \in BOOLEAN, calibOk \in BOOLEAN, heard \in HeardSet :
             listen_for_command(openOk, calibOk, heard)
        \/ \E text \in {None, <<"o","p","e","n"," ","b","r","o","w","s","e","r">>} : parse_command(text)
        \/ \E backendOk \in BOOLEAN :
             get_available_microphones(<<"default", "USB Audio">>, backendOk)

SpecLoop == Init /\ [][NextLoop]_vars

\* the loop's listen recognizes an utterance that is the stop phrase
StopPhraseHeard ==
  \E u \in Utterances : IsStopPhrase(u, stop_phrase) /\ LoopListen(Heard(u))

\* the loop in an environment that keeps delivering the stop phrase: a
\* listen that can recognize it again and again does so at some time, and
\* the callback, once due, is called and comes back (the loop runs on the
\* caller's thread and does nothing else between the two)
SpecLoopFair ==
  /\ Init /\ [][NextContinuous]_vars
  /\ SF_vars(StopPhraseHeard)
  /\ WF_vars(InvokeCallback)
  /\ WF_vars(\E outcome \in CallbackOutcomes : CallbackEnds(outcome))

\* the most tokens of one OCR run
MaxTokens == 2
\* the thresholds the settings accept (0 to 100), the default among them
Thresholds == {0, DefaultThreshold, 100}
\* what image_to_string reads from a screen
ScreenTexts == {<<"O","p","e","n"," ","F","i","l","e">> \o <<"\n">>, <<" ","o","k"," ">>, <<>>}
\* the tokens of image_to_data: a text and its confidence (-1 for a block)
TokenTexts == {<<>>, <<" ">>, <<"H","i"," ">>}
Confidences == {-1, 40, 60, 85}
Tokens == TokenTexts \X Confidences
TokenLists == UNION {[1..n -> Tokens] : n \in 0..MaxTokens}
SearchTexts == {<<"o","p","e","n">>, <<"F","i","l","e">>, <<"o","k"," ">>, <<>>}

InitScreen ==
  /\ action_history = <<>>
  /\ microphone = "absent"
  /\ last_command = <<>>
  /\ now = 0
  /\ call = [op |-> "__init__"]
  /\ ret = ReturnNone
  /\ pc = "idle"
  /\ stop_phrase = <<>>
  /\ loop_command = <<>>
  /\ callbacks = <<>>
  /\ recognized = <<>>
  /\ loop_ret = NotCalled
  /\ callback_ret = "none"
  /\ last_screenshot = None
  /\ last_text = <<>>
  /\ ocr_confidence_threshold \in Thresholds
  /\ saved = {}
  /\ written = {}
  /\ desktop = <<>>

\* what fails in one call: nothing, or one backend step (the first failure
\* ends the try block, so that later ones never show)
BackendFailures == {"none", "grab", "save", "enhance", "ocr"}

\* the calls of a ScreenReader that captures and reads plain text, for the
\* given screens and search texts
ScreenTextCalls(texts, searches) ==
  \E text \in texts, fails \in BackendFailures :
    LET screen == Image(text, <<>>)
        grabOk == fails # "grab"
        saveOk == fails # "save"
        enhanceOk == fails # "enhance"
        ocrOk == fails # "ocr"
    IN \/ \E save \in BOOLEAN :
            capture_screenshot(save, screen, grabOk, saveOk)
       \/ \E image \in {NoImage, Image(<<" ","o","k"," ">>, <<>>)}, enhance \in BOOLEAN :
            extract_text(image, enhance, screen, grabOk, enhanceOk, ocrOk)
       \/ \E save \in BOOLEAN :
            capture_and_read(save, screen, grabOk, saveOk, enhanceOk, ocrOk)
       \/ \E search_text \in searches, case_sensitive \in BOOLEAN :
            find_text_on_screen(search_text, case_sensitive, screen, grabOk, enhanceOk, ocrOk)

NextScreenText == ScreenTextCalls(ScreenTexts, SearchTexts)

SpecScreen == InitScreen /\ [][NextScreenText]_vars

\* one extract_text_with_confidence on a fresh ScreenReader, with any tokens
NextScreenTokens ==
  /\ call.op = "__init__"
  /\ \E tokens \in TokenLists, given \in BOOLEAN, fails \in {"none", "grab", "ocr"} :
       extract_text_with_confidence(IF given THEN Image(<<>>, tokens) ELSE NoImage,
                                    IF given THEN Image(<<>>, <<>>) ELSE Image(<<>>, tokens),
                                    fails # "grab", fails # "ocr")

SpecTokens == InitScreen /\ [][NextScreenTokens]_vars

\* the texts the run mode is made to recognize
PipelineCommands == (Commands \ {None}) \cup {<<"s","e","a","r","c","h"," "," ">>, <<"S","E","A","R","C","H">>}

\* one round of the run mode on an executor with some history: a listen
\* recognizes a text, and the loop calls handle_command with it
NextPipeline ==
  \/ /\ call.op = "__init__"
     /\ \E text \in PipelineCommands : listen_for_command(TRUE, TRUE, Heard(text))
  \/ /\ call.op = "listen_for_command"
     /\ ~ret.raised
     /\ \E popenOk \in BOOLEAN : handle_command(ret.text, popenOk)

SpecPipeline == InitDispatch /\ [][NextPipeline]_vars

\* the values a bounded field is given: the two bounds, the values one step
\* outside them, and the default
FieldValues(field) ==
  {Ranges[field].ge - 1, Ranges[field].ge, Defaults[field],
   Ranges[field].le, Ranges[field].le + 1}

\* the keyword arguments of one construction
SettingsArgs ==
  [screenshot_interval : FieldValues("screenshot_interval"),
   ocr_confidence_threshold : FieldValues("ocr_confidence_threshold"),
   voice_timeout : FieldValues("voice_timeout"),
   voice_phrase_time_limit : FieldValues("voice_phrase_time_limit"),
   voice_energy_threshold : FieldValues("voice_energy_threshold"),
   action_timeout : FieldValues("action_timeout")]

\* one construction of Settings
NextSettings ==
  /\ call.op = "__init__"
  /\ \E kwargs \in SettingsArgs, mkdirOk \in BOOLEAN : Settings(kwargs, mkdirOk)

SpecSettings == Init /\ [][NextSettings]_vars

\* a ScreenReader whose calls are seconds apart or within the same second
NextCapture ==
  \/ Tick
  \/ ScreenTextCalls({<<" ","o","k"," ">>}, {<<"o","k">>})

SpecCapture == Init /\ [][NextCapture]_vars

\* the audio files a request names, and what may go wrong in it
AudioInputs == {<<"r","e","q","u","e","s","t",".","w","a","v">>, <<"m","i","s","s","i","n","g",".","w","a","v">>}
AppFailures ==
  {NoFailure}
    \cup {Failure(1, cause, 0) :
            cause \in {FileNotFound, <<"N","o"," ","s","p","e","e","c","h"," ","d","e","t","e","c","t","e","d"," ","i","n"," ","a","u","d","i","o"," ","f","i","l","e">>, <<"t","i","m","e","o","u","t">>}}
    \cup {Failure(stage, <<"t","i","m","e","o","u","t">>, 0) : stage \in 2..5}
    \cup {Failure(stage, <<"F","a","i","l","e","d"," ","t","o"," ","g","e","t"," ","I","B","M"," ","C","l","o","u","d"," ","a","c","c","e","s","s"," ","t","o","k","e","n",":"," ","4","0","1">>, 0) : stage \in 3..4}
    \cup {Failure(6, <<"f","a","i","l","-","s","a","f","e"," ","t","r","i","g","g","e","r","e","d">>, done) : done \in 0..(Len(ClickSequence) - 1)}

\* the requests a BitDubberApp handles, one after the other
NextApp ==
  \E audio_input \in AudioInputs, failure \in AppFailures :
    handle_user_request(audio_input, failure)

SpecApp == Init /\ [][NextApp]_vars

\* the calls that reach a backend, of a ScreenReader and a VoiceRecognizer
NextBoundary ==
  \/ ScreenTextCalls({<<" ","o","k"," ">>}, {<<"o","k">>})
  \/ \E given \in BOOLEAN, fails \in {"none", "grab", "ocr"} :
       extract_text_with_confidence(IF given THEN Image(<<>>, <<>>) ELSE NoImage,
                                    Image(<<>>, <<>>), fails # "grab", fails # "ocr")
  \/ \E openOk \in BOOLEAN, calibOk \in BOOLEAN :
       initialize_microphone(openOk, calibOk)
  \/ \E openOk \in BOOLEAN, calibOk \in BOOLEAN, heard \in HeardSet :
       listen_for_command(openOk, calibOk, heard)

SpecBoundary == Init /\ [][NextBoundary]_vars

Next ==
  \/ NextDispatch
  \/ NextExecutor
  \/ NextVoice
  \/ NextLoop
  \/ NextScreenText
  \/ NextScreenTokens
  \/ NextCapture
  \/ NextSettings
  \/ NextPipeline
  \/ NextApp
  \/ NextBoundary

Spec == Init /\ [][Next]_vars

(***************************************************************************)
(* Properties of ActionExecutor.execute_action                             *)
(***************************************************************************)
Executed == call.op = "execute_action"
\* the call was given a str as action, and a str or None as target
TypedCall == Executed /\ IsStr(call.action) /\ (call.target = None \/ IsStr(call.target))

\* C1: an action name that, lower-cased, is none of the seven verbs gives, for
\* every target and params, the result error / "Unknown action", not an exception
C1_UnknownActionIsError ==
  (Executed /\ IsStr(call.action) /\ Lower(call.action) \notin ActionVerbs)
    => (~ret.raised /\ ret.value = Result("error", <<"U","n","k","n","o","w","n"," ","a","c","t","i","o","n">>))

C1_Witness ==
  /\ Executed /\ call.action = <<"o","p","e","n","s">> /\ call.target = NonStr
  /\ ~ret.raised /\ ret.value.status = "error"

\* C2: close, click, type, scroll and find, in any letter case, give status
\* partial for every target (None included) and every params
C2_StubsArePartial ==
  (Executed /\ IsStr(call.action)
     /\ Lower(call.action) \in {<<"c","l","o","s","e">>, <<"c","l","i","c","k">>, <<"t","y","p","e">>, <<"s","c","r","o","l","l">>, <<"f","i","n","d">>})
    => (~ret.raised /\ ret.value.status = "partial")

C2_Witness ==
  /\ Executed /\ call.action = <<"S","c","r","o","l","l">> /\ call.target = None
  /\ call.params = NoneDict /\ ~ret.raised /\ ret.value.status = "partial"

\* C3: the status of a search is decided by the target and the spawn outcome
\* alone: error "No search query provided" for a target that is None or "",
\* success for a non-empty target whose spawn succeeds, a returned error for a
\* non-empty target whose spawn fails
C3_SearchStatus ==
  (TypedCall /\ Lower(call.action) = <<"s","e","a","r","c","h">>)
    => /\ ~ret.raised
       /\ (call.target \in {None, <<>>})
            => ret.value = Result("error", <<"N","o"," ","s","e","a","r","c","h"," ","q","u","e","r","y"," ","p","r","o","v","i","d","e","d">>)
       /\ (call.target \notin {None, <<>>} /\ call.popenOk)
            => ret.value.status = "success"
       /\ (call.target \notin {None, <<>>} /\ ~call.popenOk)
            => ret.value.status = "error"

C3_Witness ==
  /\ Executed /\ call.action = <<"S","E","A","R","C","H">> /\ call.target = <<>>
  /\ ~ret.raised /\ ret.value.status = "error" /\ ret.popen = <<>>

\* C4: the status of an open is success for a target whose lower-cased form
\* is a known application name and whose spawn succeeds, a returned error when
\* that spawn fails, and partial, with nothing spawned, for every other target
\* (None and "" included)
C4_OpenStatus ==
  (TypedCall /\ Lower(call.action) = <<"o","p","e","n">>)
    => /\ ~ret.raised
       /\ IF call.target # None /\ Lower(call.target) \in AppNames
          THEN /\ ret.value.status = (IF call.popenOk THEN "success" ELSE "error")
               /\ Len(ret.popen) = 1
          ELSE ret.value.status = "partial" /\ ret.popen = <<>>

C4_Witness ==
  /\ Executed /\ call.action = <<"o","p","e","n">> /\ call.target = <<"C","a","l","c","u","l","a","t","o","r">>
  /\ ~call.popenOk /\ ~ret.raised /\ ret.value.status = "error"

(***************************************************************************)
(* Properties of the action history                                        *)
(***************************************************************************)
Min(a, b) == IF a <= b THEN a ELSE b
\* the last n entries of a history, oldest first
Newest(history, n) == SubSeq(history, Len(history) - n + 1, Len(history))

\* C5: for every history and every limit >= 0, 0 included,
\* get_action_history(limit) returns the last min(limit, len) entries, oldest
\* first, and leaves the history as it was
C5_HistoryWindow ==
  [][(call'.op = "get_action_history" /\ call'.limit >= 0)
       => /\ ~ret'.raised
          /\ ret'.entries = Newest(action_history, Min(call'.limit, Len(action_history)))
          /\ action_history' = action_history]_vars

\* C6 as claimed: a call that returns appends exactly one entry, which holds
\* the action, target and params as passed and the result returned
C6_EntryAsPassed ==
  [][(call'.op = "execute_action" /\ ~ret'.raised)
       => /\ Len(action_history') = Len(action_history) + 1
          /\ SubSeq(action_history', 1, Len(action_history)) = action_history
          /\ LET e == action_history'[Len(action_history')]
             IN /\ e.action = call'.action
                /\ e.target = call'.target
                /\ e.params = call'.params
                /\ e.result = ret'.value]_vars

\* C6 as amended: the same, with an absent params (None) recorded as the
\* empty mapping
C6_EntryAppended ==
  [][(call'.op = "execute_action" /\ ~ret'.raised)
       => /\ Len(action_history') = Len(action_history) + 1
          /\ SubSeq(action_history', 1, Len(action_history)) = action_history
          /\ LET e == action_history'[Len(action_history')]
             IN /\ e.action = call'.action
                /\ e.target = call'.target
                /\ e.params = (IF call'.params = NoneDict THEN {} ELSE call'.params)
                /\ e.result = ret'.value]_vars

C6_Witness ==
  /\ Executed /\ ~ret.raised /\ ret.value.status = "error"
  /\ call.action = <<"O","P","E","N">> /\ call.params = NoneDict
  /\ Len(action_history) = 2
  /\ action_history[2].action = <<"O","P","E","N">>
  /\ action_history[1].action = <<"l","a","u","n","c","h">>

\* C7: when execute_action raises, it raises ActionExecutionError with the
\* message of the underlying exception as details, and the history is what it
\* was before the call
C7_RaiseLeavesHistory ==
  [][(call'.op = "execute_action" /\ ret'.raised)
       => /\ ret'.exc.type = "ActionExecutionError"
          /\ ret'.exc.details = AttributeErrorMessage(<<"l","o","w","e","r">>)
          /\ action_history' = action_history]_vars

C7_Witness ==
  /\ Executed /\ ret.raised /\ call.action = NonStr
  /\ ret.exc.type = "ActionExecutionError"
  /\ Len(action_history) = 1

\* C8: every clear_history, the second of two in a row and one on an empty
\* history included, leaves the history empty and does not raise, and an
\* execute_action that returns after a clear_history leaves exactly one entry
C8_ClearHistory ==
  /\ [](call.op = "clear_history" => (action_history = <<>> /\ ~ret.raised))
  /\ [][(call.op = "clear_history" /\ call'.op = "execute_action" /\ ~ret'.raised)
          => Len(action_history') = 1]_vars

C8_Witness ==
  call.op = "clear_history" /\ action_history = <<>> /\ ~ret.raised

(***************************************************************************)
(* Properties of VoiceRecognizer.parse_command                             *)
(***************************************************************************)
\* parse_command was called with a command string
ParsedGiven == call.op = "parse_command" /\ call.command # None

\* C9: for every command string c, with s = c lower-cased and trimmed:
\* if s starts with one of the verbs, action is that verb and target is the
\* rest of s, trimmed; otherwise action is "unknown" and target is s; action
\* is a verb or "unknown" and params is empty
C9_ParseCommand ==
  ParsedGiven
    => LET s == Strip(Lower(call.command))
           parsed == ret.parsed
       IN /\ ~ret.raised
          /\ \A verb \in ActionVerbs :
               StartsWith(s, verb)
                 => (/\ parsed.action = verb
                     /\ parsed.target = Strip(SubSeq(s, Len(verb) + 1, Len(s))))
          /\ (\A verb \in ActionVerbs : ~StartsWith(s, verb))
               => (parsed.action = <<"u","n","k","n","o","w","n">> /\ parsed.target = s)
          /\ parsed.action \in ActionVerbs \cup {<<"u","n","k","n","o","w","n">>}
          /\ parsed.params = {}

\* C10: whenever a command string is given, the empty string included, the
\* result is derived from that string alone, whatever last_command holds
C10_GivenCommandAlone ==
  ParsedGiven => (~ret.raised /\ ret.parsed = Parse(call.command))

(***************************************************************************)
(* Properties of VoiceRecognizer.listen_continuously                       *)
(***************************************************************************)
\* the loop's listen_for_command has just returned or raised (an interrupt
\* leaves pc = "listen" without a call of its own being recorded)
LoopListened ==
  pc = "listen" /\ loop_ret'.why # "interrupt" /\ call'.op = "listen_for_command"

\* C11: when the loop's listen returns a text equal to the stop phrase after
\* case-folding both, the loop ends at once: no callback for that text, no
\* further listen, and listen_continuously returns normally
C11_StopPhraseEndsLoop ==
  /\ [][(LoopListened /\ ~ret'.raised /\ Lower(ret'.text) = Lower(stop_phrase))
          => (/\ pc' = "idle"
              /\ loop_ret' = [state |-> "returned", why |-> "stop_phrase", exc |-> ""]
              /\ callbacks' = callbacks)]_vars
  /\ [](\A i \in 1..Len(recognized) :
          Lower(recognized[i]) = Lower(stop_phrase)
            => (i = Len(recognized) /\ pc = "idle" /\ loop_ret.state = "returned"))
  /\ [](\A i \in 1..Len(callbacks) : Lower(callbacks[i]) # Lower(stop_phrase))

C11_Witness ==
  /\ loop_ret.why = "stop_phrase"
  /\ stop_phrase = <<"s","t","o","p"," ","l","i","s","t","e","n","i","n","g">>
  /\ recognized = <<<<"o","p","e","n"," ","b","r","o","w","s","e","r">>, <<"S","t","o","p"," ","L","i","s","t","e","n","i","n","g">>>>
  /\ callbacks = <<<<"o","p","e","n"," ","b","r","o","w","s","e","r">>>>

\* the recognized texts that come before the first match of the stop phrase
BeforeStop ==
  LET matches == {i \in 1..Len(recognized) : Lower(recognized[i]) = Lower(stop_phrase)}
      first == IF matches = {} THEN Len(recognized) + 1
               ELSE CHOOSE i \in matches : \A k \in matches : i <= k
  IN SubSeq(recognized, 1, first - 1)

\* C12: the callback invocations are the recognized texts before the first
\* stop-phrase match, in order, none left out or repeated (the newest is still
\* due between its listen and its callback), and a listen begins only when
\* every callback invoked so far has completed
C12_CallbacksAreRecognized ==
  /\ [](callbacks = IF pc = "callback"
                    THEN SubSeq(BeforeStop, 1, Len(BeforeStop) - 1)
                    ELSE BeforeStop)
  /\ [](pc = "callback" => loop_command = recognized[Len(recognized)])
  /\ [][LoopListened => (pc # "in_callback" /\ callbacks = recognized)]_vars

C12_Witness ==
  /\ pc = "listen"
  /\ recognized = <<<<"h","e","l","l","o">>, <<"h","e","l","l","o">>>>
  /\ callbacks = recognized

\* the failures the loop is to pass over
RecognitionFailures == {"WaitTimeoutError", "UnknownValueError"}

\* C13: an iteration whose listen times out or hears unintelligible audio
\* invokes no callback, raises nothing to the caller and is followed by
\* another listen, however many of them came before
C13_RecognitionFailureContinues ==
  [][(LoopListened /\ call'.heard.kind \in RecognitionFailures)
       => (/\ ret'.raised
           /\ callbacks' = callbacks
           /\ loop_ret'.state = "running"
           /\ pc' = "listen")]_vars

C13_Witness ==
  /\ pc = "listen"
  /\ call.op = "listen_for_command"
  /\ call.heard.kind = "UnknownValueError"
  /\ ret.raised
  /\ loop_ret.state = "running"
  /\ Len(callbacks) = 1

\* C14: a transcription-service error or any other backend failure of the
\* loop's listen ends the loop and reaches the caller as a
\* VoiceRecognitionError
C14_OtherFailuresEndLoop ==
  [][(LoopListened /\ call'.heard.kind \in Failures \ RecognitionFailures)
       => (/\ pc' = "idle"
           /\ loop_ret'.state = "raised"
           /\ loop_ret'.exc = "VoiceRecognitionError")]_vars

\* C15: an interrupt that arrives while the loop listens or while the
\* callback runs makes listen_continuously return normally, never raise it;
\* once it has returned, no listen and no callback of the loop follows
C15_InterruptReturns ==
  /\ [](loop_ret.exc # "KeyboardInterrupt")
  /\ [][loop_ret'.why = "interrupt"
          => (/\ pc' = "idle"
              /\ loop_ret'.state = "returned"
              /\ callbacks' = callbacks
              /\ recognized' = recognized)]_vars
  /\ [][(pc = "idle" /\ pc' = "idle")
          => (callbacks' = callbacks /\ recognized' = recognized)]_vars

C15_Witness ==
  /\ pc = "idle"
  /\ loop_ret.state = "returned"
  /\ loop_ret.why = "interrupt"
  /\ callbacks # <<>>

(***************************************************************************)
(* Properties of the VoiceRecognizer state                                 *)
(***************************************************************************)
\* C16: no backend listen runs while the microphone is absent: a listening
\* call that finds none initializes one first, and raises
\* VoiceRecognitionError without listening when that fails
C16_NoListenWithoutMicrophone ==
  /\ []((call.op = "listen_for_command" /\ call.listened) => microphone # "absent")
  /\ [](pc # "idle" => microphone # "absent")
  /\ [][(microphone = "absent" /\ call'.op = "listen_for_command")
          => (/\ call'.init
              /\ call'.listened => microphone' = "calibrated"
              /\ ~call'.listened
                   => (/\ ret'.raised
                       /\ ret'.exc.type = "VoiceRecognitionError"
                       /\ microphone' \in {"absent", "opened"}))]_vars
  /\ [][(microphone = "absent" /\ pc' = "idle" /\ loop_ret' # loop_ret)
          => (/\ loop_ret'.state = "raised"
              /\ loop_ret'.exc = "VoiceRecognitionError"
              /\ recognized' = recognized)]_vars

C16_Witness ==
  /\ call.op = "listen_for_command"
  /\ call.init
  /\ ~call.listened
  /\ ret.raised
  /\ microphone = "absent"

\* a step of listen_for_command, called directly or by the loop
Listened ==
  /\ call'.op = "listen_for_command"
  /\ <<call, ret, microphone, last_command>>' # <<call, ret, microphone, last_command>>

\* C17: last_command is empty until a listen succeeds; a listen that returns
\* sets it to the text it returns, and a failed listen and every other
\* operation leave it unchanged
C17_LastCommand ==
  /\ [](call.op = "__init__" => last_command = <<>>)
  /\ [][IF Listened /\ ~ret'.raised
        THEN last_command' = call'.heard.text /\ ret'.text = call'.heard.text
        ELSE last_command' = last_command]_vars

C17_Witness ==
  /\ call.op = "listen_for_command"
  /\ ret.raised
  /\ last_command = <<"o","p","e","n"," ","b","r","o","w","s","e","r">>

(***************************************************************************)
(* Properties of the component boundaries and of ScreenReader              *)
(***************************************************************************)
ScreenOps ==
  {"capture_screenshot", "extract_text", "extract_text_with_confidence",
   "capture_and_read", "find_text_on_screen"}

\* a backend step of the last ScreenReader call failed
ScreenBackendFailed ==
  ~(call.backend.grabOk /\ call.backend.saveOk /\ call.backend.enhanceOk /\ call.backend.ocrOk)

\* a backend step of the last initialize_microphone or listen_for_command failed
VoiceBackendFailed ==
  \/ call.op = "initialize_microphone" /\ ~(call.openOk /\ call.calibOk)
  \/ call.op = "listen_for_command" /\ (~call.listened \/ call.heard.kind \in Failures)

\* C18: every failure of the capture or OCR backend inside a ScreenReader
\* operation reaches the caller as ScreenCaptureError, every failure of the
\* microphone or transcription backend inside initialize_microphone or
\* listen_for_command as VoiceRecognitionError; no other exception leaves them
C18_NoRawBackendException ==
  /\ call.op \in ScreenOps
       => (/\ ScreenBackendFailed => ret.raised
           /\ ret.raised => ret.exc.type = "ScreenCaptureError")
  /\ call.op \in {"initialize_microphone", "listen_for_command"}
       => (/\ VoiceBackendFailed => ret.raised
           /\ ret.raised => ret.exc.type = "VoiceRecognitionError")

C18_Witness ==
  /\ call.op = "extract_text"
  /\ ~call.backend.grabOk
  /\ ret.raised
  /\ ret.exc.message = <<"F","a","i","l","e","d"," ","t","o"," ","e","x","t","r","a","c","t"," ","t","e","x","t"," ","f","r","o","m"," ","i","m","a","g","e">>
  /\ ret.exc.details = <<"F","a","i","l","e","d"," ","t","o"," ","c","a","p","t","u","r","e"," ","s","c","r","e","e","n","s","h","o","t"," ","-"," ","D","e","t","a","i","l","s",":"," ","g","r","a","b"," ","f","a","i","l","e","d">>
  /\ microphone = "opened"

\* the tokens the OCR backend gave the last extract_text_with_confidence
TokensRead ==
  IF call.image = NoImage THEN call.screen.tokens ELSE call.image.tokens

\* C19: extract_text_with_confidence returns exactly the tokens whose text is
\* not blank and whose confidence is at least the threshold, in the OCR's
\* order, each with that token's own text, confidence and bounding box
C19_ConfidenceFilter ==
  (call.op = "extract_text_with_confidence" /\ ~ret.raised)
    => LET data == OCRData(TokensRead)
           kept == SelectSeq([i \in 1..Len(TokensRead) |-> i],
                             LAMBDA i : /\ Strip(TokensRead[i][1]) # <<>>
                                        /\ TokensRead[i][2] >= ocr_confidence_threshold)
       IN /\ Len(ret.results) = Len(kept)
          /\ \A k \in 1..Len(kept) :
               ret.results[k] =
                 [text |-> TokensRead[kept[k]][1], confidence |-> TokensRead[kept[k]][2],
                  left |-> data.left[kept[k]], top |-> data.top[kept[k]],
                  width |-> data.width[kept[k]], height |-> data.height[kept[k]]]

C19_Witness ==
  /\ call.op = "extract_text_with_confidence"
  /\ ocr_confidence_threshold = 60
  /\ TokensRead = <<<<<<"H","i"," ">>, 40>>, <<<<"H","i"," ">>, 85>>>>
  /\ ~ret.raised
  /\ Len(ret.results) = 1
  /\ ret.results[1].confidence = 85
  /\ ret.results[1].left = 20

\* C20: find_text_on_screen captures the screen once, reads it, and returns
\* true exactly when search_text is a substring of the text just read, both
\* lower-cased unless case_sensitive is true
C20_FindText ==
  (call.op = "find_text_on_screen" /\ ~ret.raised)
    => (/\ call.grabs = 1
        /\ last_text = Strip(call.screen.text)
        /\ ret.found = IF call.case_sensitive
                       THEN IsSubstring(call.search_text, last_text)
                       ELSE IsSubstring(Lower(call.search_text), Lower(last_text)))

C20_Witness ==
  /\ call.op = "find_text_on_screen"
  /\ call.search_text = <<"o","p","e","n">>
  /\ call.case_sensitive
  /\ last_text = <<"O","p","e","n"," ","F","i","l","e">>
  /\ ~ret.raised
  /\ ~ret.found

(***************************************************************************)
(* Properties of the ScreenReader state                                    *)
(***************************************************************************)
\* the last call was a capture with save=true whose grab and file write
\* both succeeded
SavedCall ==
  /\ call.op \in {"capture_screenshot", "capture_and_read"}
  /\ call.save
  /\ call.backend.grabOk
  /\ call.backend.saveOk

\* C21: last_screenshot is absent until a capture with save=true succeeds and
\* is then the path the most recent such capture wrote; every other call (a
\* capture with save=false, a failed grab or file write, an extract) and the
\* passing of time leave it unchanged
C21_LastScreenshot ==
  /\ [](saved = {} => last_screenshot = None)
  /\ [](last_screenshot # None => last_screenshot \in saved)
  /\ [][IF now' = now /\ SavedCall'
        THEN /\ last_screenshot' = <<"screenshots", "screenshot_", now, ".png">>
             /\ last_screenshot' \in saved'
        ELSE last_screenshot' = last_screenshot]_vars

C21_Witness ==
  /\ now = 1
  /\ call.op = "capture_screenshot"
  /\ call.save
  /\ ~call.backend.saveOk
  /\ ret.raised
  /\ last_screenshot = <<"screenshots", "screenshot_", 0, ".png">>

\* the text the OCR backend read in the last call
TextRead ==
  IF call.op = "extract_text" /\ call.image # NoImage
  THEN call.image.text ELSE call.screen.text

\* the last call ran extract_text, directly or not, and it returned
Extracted ==
  /\ call.op \in {"extract_text", "capture_and_read", "find_text_on_screen"}
  /\ ~ret.raised

C29_NoOverwrite ==
  [][(now' = now /\ SavedCall')
       => <<"screenshots", "screenshot_", now, ".png">> \notin saved]_vars

(***************************************************************************)
(* Properties of Settings                                                  *)
(***************************************************************************)
\* every bounded field of the construction lies in the range the
\* specification gives it (floats in tenths)
AllInRange ==
  LET k == call.kwargs
  IN /\ 1 <= k.screenshot_interval /\ k.screenshot_interval <= 600
     /\ 0 <= k.ocr_confidence_threshold /\ k.ocr_confidence_threshold <= 1000
     /\ 10 <= k.voice_timeout /\ k.voice_timeout <= 300
     /\ 10 <= k.voice_phrase_time_limit /\ k.voice_phrase_time_limit <= 600
     /\ 100 <= k.voice_energy_threshold /\ k.voice_energy_threshold <= 4000
     /\ 10 <= k.action_timeout /\ k.action_timeout <= 3000

\* C23: a construction of Settings whose directory can be created succeeds
\* exactly when every bounded field is inside its inclusive range; then the
\* settings hold the values given; otherwise it fails with a validation
\* error and no value is replaced by a default
C23_SettingsValidation ==
  (call.op = "Settings")
    => (/\ AllInRange /\ call.mkdirOk => (~ret.raised /\ ret.settings = call.kwargs)
        /\ ~AllInRange => (ret.raised /\ ret.exc.type = "ValidationError"))

C23_Witness ==
  /\ call.op = "Settings"
  /\ call.kwargs.screenshot_interval = 1
  /\ call.kwargs.voice_energy_threshold = 4000
  /\ call.kwargs.ocr_confidence_threshold = 0
  /\ call.kwargs.voice_timeout = 300
  /\ ~ret.raised

(***************************************************************************)
(* Termination of listen_continuously                                      *)
(***************************************************************************)
\* C24: listen_continuously stops running only by a recognized utterance
\* equal to the stop phrase, by an interrupt, or by an exception that
\* propagates (a failed listen, timeouts included, never ends it); and when
\* the stop phrase keeps being deliverable, a running loop ends at some time
C24_LoopEnds ==
  /\ [][(loop_ret.state = "running" /\ loop_ret'.state # "running")
          => \/ /\ loop_ret'.state = "returned"
                /\ loop_ret'.why = "stop_phrase"
                /\ recognized' # <<>>
                /\ Lower(recognized'[Len(recognized')]) = Lower(stop_phrase)
             \/ loop_ret'.state = "returned" /\ loop_ret'.why = "interrupt"
             \/ loop_ret'.state = "raised" /\ loop_ret'.exc # ""]_vars
  /\ [][(LoopListened /\ ret'.raised) => loop_ret'.state = "running"]_vars
  /\ (loop_ret.state = "running" ~> loop_ret.state # "running")

C24_Witness ==
  /\ loop_ret.state = "returned"
  /\ loop_ret.why = "stop_phrase"
  /\ call.op = "listen_for_command"
  /\ recognized = <<<<"h","e","l","l","o">>>>
  /\ stop_phrase = <<"H","e","l","l","o">>
  /\ callbacks = <<>>

\* C28: an exception the callback raises, a VoiceRecognitionError included,
\* ends the loop and reaches the caller of listen_continuously (an interrupt
\* delivered during the callback is the case of C15 and is left out)
C28_CallbackExceptionPropagates ==
  [][(pc = "in_callback" /\ pc' # "in_callback"
        /\ callback_ret' \notin {"return", "KeyboardInterrupt"})
       => (/\ pc' = "idle"
           /\ loop_ret'.state = "raised"
           /\ loop_ret'.exc = callback_ret')]_vars

\* C30: a failed initialize_microphone, at opening the device or during the
\* calibration, leaves the microphone as it was, and a listen runs only on a
\* microphone whose calibration completed
C30_FailedInitLeavesMicrophone ==
  /\ [][(call'.op = "initialize_microphone" /\ ret'.raised) => microphone' = microphone]_vars
  /\ []((call.op = "listen_for_command" /\ call.listened) => microphone = "calibrated")

(***************************************************************************)
(* Properties of the verb list and of the parse-execute pipeline           *)
(***************************************************************************)
\* the list with its k-th verb moved to the front
Fronted(k) ==
  <<action_verbs[k]>> \o SubSeq(action_verbs, 1, k - 1)
                     \o SubSeq(action_verbs, k + 1, Len(action_verbs))

\* the list back to front
Reversed == [i \in 1..Len(action_verbs) |-> action_verbs[Len(action_verbs) + 1 - i]]

\* orderings of the verb list: the scan stops at the first verb that
\* matches, so the result of any ordering is the result of the one that has
\* this verb at the front
Orderings == {Fronted(k) : k \in 1..Len(action_verbs)} \cup {Reversed}

\* the command text the last parse_command settled on
ParsedText == CommandOrLast(call.command, last_command)

\* C26: no command text starts with more than one verb of the list, so that
\* parse_command gives the same result under every ordering of the list; a
\* verb further on in the text does not change the action
C26_VerbOrderIrrelevant ==
  (call.op = "parse_command")
    => (/\ \A v, w \in {action_verbs[i] : i \in 1..Len(action_verbs)} :
             /\ StartsWith(w, v) => v = w
             /\ (StartsWith(Strip(Lower(ParsedText)), v)
                   /\ StartsWith(Strip(Lower(ParsedText)), w)) => v = w
        /\ \A verbs \in Orderings : ParseWith(verbs, ParsedText) = ret.parsed)

C26_Witness ==
  /\ call.op = "parse_command"
  /\ call.command = <<"o","p","e","n"," ","s","e","a","r","c","h"," ","b","a","r">>
  /\ ret.parsed.action = <<"o","p","e","n">>
  /\ ret.parsed.target = <<"s","e","a","r","c","h"," ","b","a","r">>

\* the command the run mode handled, lower-cased and trimmed
Handled == Strip(Lower(call.command))

\* C27: parse_command followed by execute_action, as the run mode chains them,
\* does not raise, returns a status of success, partial or error and appends
\* exactly one history entry; a command that starts with no verb gives error
\* "Unknown action", and a bare "search" gives error "No search query
\* provided" and spawns nothing
C27_PipelineNeverRaises ==
  /\ [](call.op = "handle_command"
          => (/\ ~call.executed.raised
              /\ call.executed.value.status \in {"success", "partial", "error"}
              /\ action_history # <<>>
              /\ action_history[Len(action_history)].result = call.executed.value
              /\ (\A verb \in ActionVerbs : ~StartsWith(Handled, verb))
                   => call.executed.value = [status |-> "error", message |-> <<"U","n","k","n","o","w","n"," ","a","c","t","i","o","n">>]
              /\ Handled = <<"s","e","a","r","c","h">>
                   => (/\ call.executed.value =
                            [status |-> "error", message |-> <<"N","o"," ","s","e","a","r","c","h"," ","q","u","e","r","y"," ","p","r","o","v","i","d","e","d">>]
                       /\ call.executed.popen = <<>>)))
  /\ [][call'.op = "handle_command" => Len(action_history') = Len(action_history) + 1]_vars

C27_Witness ==
  /\ call.op = "handle_command"
  /\ call.command = <<"s","e","a","r","c","h"," "," ">>
  /\ call.executed.value.message = <<"N","o"," ","s","e","a","r","c","h"," ","q","u","e","r","y"," ","p","r","o","v","i","d","e","d">>
  /\ Len(action_history) = 2

(***************************************************************************)
(* Properties of BitDubberApp.handle_user_request                          *)
(***************************************************************************)
\* the order of the stages and the service each belongs to, as claimed
ClaimedOrder ==
  <<"convert_speech_to_text", "take_screenshot", "identify_ui_elements",
    "determine_click_sequence", "convert_text_to_speech", "execute_click_sequence">>
ClaimedService ==
  <<<<"W","a","t","s","o","n">>, <<"U","I"," ","a","u","t","o","m","a","t","i","o","n">>, <<"L","L","a","M","A">>, <<"L","L","a","M","A">>, <<"W","a","t","s","o","n">>, <<"U","I"," ","a","u","t","o","m","a","t","i","o","n">>>>

\* C25: handle_user_request never raises; the stages it runs are a prefix of
\* the order speech-to-text, screenshot, UI-element identification,
\* action-sequence determination, text-to-speech, action execution; when a
\* stage fails it is the last one run, nothing is done on the desktop unless
\* it is action execution that failed, no later stage writes its file, and the
\* returned message starts with the name of the failing stage's service; when
\* no stage fails all six run, the whole sequence is performed and the message
\* starts with "Success"; a desktop action is performed only when the five
\* stages before action execution succeeded
C25_RequestStages ==
  [][call'.op = "handle_user_request" =>
       LET failed == call'.failure.stage
           ran == call'.stages
       IN /\ ~ret'.raised
          /\ Len(ran) <= Len(ClaimedOrder)
          /\ ran = SubSeq(ClaimedOrder, 1, Len(ran))
          /\ failed # 0 =>
               /\ Len(ran) = failed
               /\ failed # 6 => desktop' = desktop
               /\ \A i \in (failed + 1)..6 :
                    StageFile[i] # "" /\ StageFile[i] \notin written
                      => StageFile[i] \notin written'
               /\ StartsWith(ret'.text, ClaimedService[failed])
               /\ ~StartsWith(ret'.text, <<"S","u","c","c","e","s","s">>)
          /\ failed = 0 =>
               /\ ran = ClaimedOrder
               /\ desktop' = desktop \o ClickSequence
               /\ StartsWith(ret'.text, <<"S","u","c","c","e","s","s">>)
          /\ desktop' # desktop =>
               /\ failed \in {0, 6}
               /\ {"screenshot.png", "ui_elements.csv", "output.wav"} \subseteq written'
  ]_vars

\* a request whose action-sequence determination failed after the screenshot
\* and the element list were written: it answers with the LLaMA error and
\* nothing was spoken or done on the desktop
C25_Witness ==
  /\ call.op = "handle_user_request"
  /\ call.failure.stage = 4
  /\ call.stages = SubSeq(Stages, 1, 4)
  /\ written = {"screenshot.png", "ui_elements.csv"}
  /\ desktop = <<>>
  /\ StartsWith(ret.text, <<"L","L","a","M","A"," ","s","e","r","v","i","c","e"," ","e","r","r","o","r",":"," ","F","a","i","l","e","d"," ","t","o"," ","d","e","t","e","r","m","i","n","e"," ","c","l","i","c","k"," ","s","e","q","u","e","n","c","e",":"," ">>)

====
